---- MODULE Spec2Model ----
(***************************************************************************)
(* Model of scripts/webhostmost_login.py: one run of main(), the retry     *)
(* loop of attempt_login_with_retries, the steps of perform_login_flow,    *)
(* the Cloudflare wait, the challenge detector, the success verification   *)
(* and the Telegram notifier.                                              *)
(*                                                                         *)
(* The browser driver and the HTTP client are the environment: every call  *)
(* into them picks its outcome nondeterministically (a value, a timeout,   *)
(* or another exception), except close(), which is taken to return.        *)
(* Time is counted in whole seconds since the current wait started.        *)
(***************************************************************************)
EXTENDS Integers, Sequences, FiniteSets, TLC

\* ---------------------------------------------------------------- constants
CLOUDFLARE_TIMEOUT_SECONDS == 30
CLOUDFLARE_POLL_INTERVAL_SECONDS == 2
MAX_ATTEMPTS == 3
TWO_FACTOR_EXIT_CODE == 2
TRANSIENT_EXIT_CODE == 3
GENERIC_EXIT_CODE == 1
SUCCESS_EXIT_CODE == 0
RETRY_SLEEP_SECONDS == 3

NumUsernameSelectors == 4
NumPasswordSelectors == 3
NumSubmitSelectors == 3
NumTwoFactorSelectors == 6
NumCaptchaSelectors == 4
NumLogoutSelectors == 3

\* ------------------------------------------------------------------- bounds
\* Longest address mask_email is called on by itself.
MaxEmailLen == 4

\* Longest time, in seconds, one body-text read of a poll that still sees
\* the interstitial may take on top of the poll interval.
MaxPollOverhead == 1
MaxWordLen == 2

\* ------------------------------------------------------- environment values
\* os.environ.get(name): None when the variable is absent, else its text
\* (a sequence of characters).
Absent == [present |-> FALSE, val |-> <<>>]
Val(s) == [present |-> TRUE, val |-> s]

\* Python truthiness of an Optional[str]: None and "" are falsy.
Truthy(v) == v.present /\ Len(v.val) > 0

EmailValues == {Absent, Val(<<>>), Val(<<"a", "@", "b">>)}
PasswordValues == {Absent, Val(<<>>), Val(<<"p">>)}
TokenValues == {Absent, Val(<<>>), Val(<<"t">>)}
ChatValues == {Absent, Val(<<>>), Val(<<"c">>)}

\* str.lower() on the phrases a page body or a URL is made of here.
Lower(p) ==
    CASE p = "Just a moment" -> "just a moment"
      [] p = "Checking your browser" -> "checking your browser"
      [] p = "Two-Factor" -> "two-factor"
      [] p = "Verification Code" -> "verification code"
      [] p = "CAPTCHA" -> "captcha"
      [] p = "ClientArea" -> "clientarea"
      [] p = "Login" -> "login"
      [] OTHER -> p

\* `needle in text.lower()`, a text being the set of phrases it contains.
ContainsLowered(text, needle) == \E p \in text : Lower(p) = needle

\* ------------------------------------------------------------------- state
VARIABLES
    email,          \* WEBHOSTMOST_EMAIL
    password,       \* WEBHOSTMOST_PASSWORD
    pc,             \* position in main / attempt_login_with_retries / flow
    attempt,        \* loop variable of attempt_login_with_retries (0 before)
    last_error,     \* last_error of attempt_login_with_retries
    exc,            \* the exception in flight, NoExc when none
    browser,        \* "None", "open", "closed"
    context,        \* "None", "open", "closed"
    page,           \* the page handle of the current attempt (0: none)
    openPages,      \* the pages that are open in the browser
    phase,          \* "pre" (before the form is filled) or "post" (after submit)
    elapsed,        \* seconds since wait_for_cloudflare computed its deadline
    interstitial,   \* the page currently shows the Cloudflare interstitial
    clearedAt,      \* second at which the interstitial went away, -1 if not
    selIdx,         \* index of the selector the current scan is at
    filled,         \* the form steps done in this attempt
    acted,          \* the candidate the latest form step acted on (0: none)
    outcomes,       \* how each finished attempt ended
    trace,          \* resource and notifier events of the run, in order
    notifications,  \* calls of send_telegram_notification
    exitCode,       \* return value of main, -1 while running
    fnIn,           \* a helper function called on its own: which, and its input
    fnOut           \* what that call has produced so far

vars == <<email, password, pc, attempt, last_error, exc, browser, context,
          page, openPages, phase, elapsed, interstitial, clearedAt, selIdx, filled, acted,
          outcomes, trace, notifications, exitCode, fnIn, fnOut>>

fnVars == <<fnIn, fnOut>>
NoCall == [fn |-> "none"]

NoExc == [type |-> "None", msg |-> ""]
Exc(t, m) == [type |-> t, msg |-> m]

EvN(name, k) == [ev |-> name, n |-> k]
Ev(name) == EvN(name, attempt)

NoFilled == [username |-> FALSE, password |-> FALSE, submit |-> FALSE]

Init ==
    /\ email \in EmailValues
    /\ password \in PasswordValues
    /\ pc = "main"
    /\ attempt = 0
    /\ last_error = NoExc
    /\ exc = NoExc
    /\ browser = "None"
    /\ context = "None"
    /\ page = 0
    /\ openPages = {}
    /\ phase = "pre"
    /\ elapsed = 0
    /\ interstitial = FALSE
    /\ clearedAt = -1
    /\ selIdx = 0
    /\ filled = NoFilled
    /\ acted = 0
    /\ outcomes = <<>>
    /\ trace = <<>>
    /\ notifications = <<>>
    /\ exitCode = -1
    /\ fnIn = NoCall
    /\ fnOut = NoCall

\* ---------------------------------------------------------------- notifier
IsSpace(c) == c \in {" ", "\t", "\n"}

RECURSIVE LStrip(_)
LStrip(s) == IF s # <<>> /\ IsSpace(Head(s)) THEN LStrip(Tail(s)) ELSE s

RECURSIVE RStrip(_)
RStrip(s) ==
    IF s # <<>> /\ IsSpace(s[Len(s)]) THEN RStrip(SubSeq(s, 1, Len(s) - 1)) ELSE s

\* str.strip()
Strip(s) == RStrip(LStrip(s))

\* Index of the first "@" of s, 0 when there is none.
FirstAt(s) ==
    IF \E i \in 1..Len(s) : s[i] = "@"
    THEN CHOOSE i \in 1..Len(s) : s[i] = "@" /\ \A j \in 1..(i - 1) : s[j] # "@"
    ELSE 0

UnknownEmail == <<"<unknown email>">>
Stars == <<"*", "*", "*">>

\* Mutant: the address is not stripped before it is masked.
mask_email_NoStrip(e) ==
    IF ~Truthy(e) THEN UnknownEmail
    ELSE LET stripped == e.val
             at == FirstAt(stripped)
             local_part == SubSeq(stripped, 1, at - 1)
             domain == SubSeq(stripped, at + 1, Len(stripped))
         IN  IF stripped = <<>> THEN UnknownEmail
             ELSE IF at = 0 THEN <<stripped[1]>> \o Stars
             ELSE IF local_part = <<>> THEN Stars \o <<"@">> \o domain
             ELSE <<local_part[1]>> \o Stars \o <<"@">> \o domain

mask_email(e) ==
    IF ~Truthy(e) THEN UnknownEmail
    ELSE LET stripped == Strip(e.val)
             at == FirstAt(stripped)
             local_part == SubSeq(stripped, 1, at - 1)
             domain == SubSeq(stripped, at + 1, Len(stripped))
         IN  IF stripped = <<>> THEN UnknownEmail
             ELSE IF at = 0 THEN <<stripped[1]>> \o Stars
             ELSE IF local_part = <<>> THEN Stars \o <<"@">> \o domain
             ELSE <<local_part[1]>> \o Stars \o <<"@">> \o domain

\* Mutant: the two templates are swapped.
NotificationText_Swapped(success, e) ==
    [template |-> IF success THEN "Webhostmost login failed"
                  ELSE "Webhostmost login succeeded",
     masked |-> mask_email(e)]

\* The text send_telegram_notification builds: which of its templates, and
\* the masked address put into it.
NotificationText(success, e) ==
    [template |-> IF success THEN "Webhostmost login succeeded"
                  ELSE "Webhostmost login failed",
     masked |-> mask_email(e)]

\* What the HTTP client library and the Telegram API may do to one POST.
PostOutcomes ==
    {[raises |-> TRUE, status |-> 0, json |-> "none"]} \cup
    {[raises |-> FALSE, status |-> st, json |-> js] :
        st \in {200, 399, 400, 500},
        js \in {"not json", "list", "dict without ok", "ok true", "ok false",
                "ok null"}}

\* isinstance(response_json, dict) and not response_json.get("ok", True)
ApiSaysNotOk(js) == js \in {"ok false", "ok null"}

\* send_tg: whether a POST is made and the value returned, given the
\* environment (token, chat id, requests importable, what the POST does).
SendTgPosts(token, chat, importable) ==
    Truthy(token) /\ Truthy(chat) /\ importable

\* Mutant: the status test is > 400 instead of >= 400.
send_tg_StatusOffByOne(token, chat, importable, post) ==
    IF ~(Truthy(token) /\ Truthy(chat)) THEN FALSE
    ELSE IF ~importable THEN FALSE
    ELSE IF post.raises THEN FALSE
    ELSE IF post.status > 400 THEN FALSE
    ELSE IF ApiSaysNotOk(post.json) THEN FALSE
    ELSE TRUE

send_tg(token, chat, importable, post) ==
    IF ~(Truthy(token) /\ Truthy(chat)) THEN FALSE
    ELSE IF ~importable THEN FALSE
    ELSE IF post.raises THEN FALSE
    ELSE IF post.status >= 400 THEN FALSE
    ELSE IF ApiSaysNotOk(post.json) THEN FALSE
    ELSE TRUE

\* Which of the notifier's ways out one call of send_tg takes.
NotifierCase(token, chat, importable, post) ==
    IF ~(Truthy(token) /\ Truthy(chat)) THEN "unconfigured"
    ELSE IF ~importable THEN "requests unavailable"
    ELSE IF post.raises THEN "post raised"
    ELSE IF post.status >= 400 THEN "http error"
    ELSE IF ApiSaysNotOk(post.json) THEN "ok false"
    ELSE "sent"

\* Mutant: an unsent notification turns the run into a failure.
ReturnAfterNotification_FailsUnsent(code, sent) ==
    IF sent THEN code ELSE GENERIC_EXIT_CODE

\* Exit code main returns once the notification call is over.
ReturnAfterNotification(code, sent) == code

\* send_telegram_notification(success, email, reason) followed by main's
\* `return code`: the last step of every branch of main.
NotifyAndReturn(success, code) ==
    /\ \E token \in TokenValues, chat \in ChatValues, importable \in BOOLEAN,
          post \in PostOutcomes :
          LET posts == SendTgPosts(token, chat, importable)
              sent == send_tg(token, chat, importable, post)
          IN  /\ notifications' = Append(notifications,
                    [success |-> success,
                     email |-> email,
                     cause |-> exc,
                     text |-> NotificationText(success, email),
                     notifier |-> NotifierCase(token, chat, importable, post),
                     posted |-> posts,
                     sent |-> sent])
              /\ trace' = trace \o
                    (IF posts THEN <<Ev("notify"), Ev("post")>> ELSE <<Ev("notify")>>)
              /\ exitCode' = ReturnAfterNotification(code, sent)
    /\ pc' = "done"
    /\ UNCHANGED <<fnVars, email, password, attempt, last_error, exc, browser, context,
                   page, openPages, phase, elapsed, interstitial, clearedAt, selIdx,
                   filled, acted, outcomes>>

\* ---------------------------------------------------------------------- main
\* Mutant: credentials count as missing only when both are.
Missing_OnlyWhenBoth == ~Truthy(email) /\ ~Truthy(password)

\* missing = [name for name, value in env_pairs if not value]
Missing == ~Truthy(email) \/ ~Truthy(password)

MainMissingCredentials ==
    /\ pc = "main"
    /\ Missing
    /\ NotifyAndReturn(FALSE, GENERIC_EXIT_CODE)

MainCredentialsPresent ==
    /\ pc = "main"
    /\ ~Missing
    /\ pc' = "launch"
    /\ UNCHANGED <<fnVars, email, password, attempt, last_error, exc, browser, context,
                   page, openPages, phase, elapsed, interstitial, clearedAt, selIdx,
                   filled, acted, outcomes, trace, notifications, exitCode>>

\* sync_playwright() and playwright.chromium.launch(headless=True): on an
\* exception no browser exists and main's handlers are reached directly.
LaunchBrowser ==
    /\ pc = "launch"
    /\ \/ /\ browser' = "open"
          /\ trace' = Append(trace, Ev("launch"))
          /\ pc' = "new_context"
          /\ exc' = exc
       \/ /\ exc' = Exc("Error", "launch failed")
          /\ pc' = "handler"
          /\ UNCHANGED <<browser, trace>>
    /\ UNCHANGED <<fnVars, email, password, attempt, last_error, context, page, openPages, phase,
                   elapsed, interstitial, clearedAt, selIdx, filled, acted, outcomes,
                   notifications, exitCode>>

\* context = browser.new_context(): on an exception context stays None.
NewContext ==
    /\ pc = "new_context"
    /\ \/ /\ context' = "open"
          /\ trace' = Append(trace, Ev("new_context"))
          /\ pc' = "loop"
          /\ exc' = exc
       \/ /\ exc' = Exc("Error", "")
          /\ pc' = "finally_context"
          /\ UNCHANGED <<context, trace>>
    /\ UNCHANGED <<fnVars, email, password, attempt, last_error, browser, page, openPages, phase,
                   elapsed, interstitial, clearedAt, selIdx, filled, acted, outcomes,
                   notifications, exitCode>>

\* Mutant: the test for None is inverted.
ContextNeedsClose_Inverted(c) == c = "None"

\* finally: if context is not None: context.close()
ContextNeedsClose(c) == c # "None"

FinallyContext ==
    /\ pc = "finally_context"
    /\ IF ContextNeedsClose(context)
       THEN /\ context' = "closed"
            /\ trace' = Append(trace, Ev("context_close"))
       ELSE UNCHANGED <<context, trace>>
    /\ pc' = "finally_browser"
    /\ UNCHANGED <<fnVars, email, password, attempt, last_error, exc, browser, page,
                   openPages, phase, elapsed, interstitial, clearedAt, selIdx, filled, acted,
                   outcomes, notifications, exitCode>>

\* finally: browser.close()
FinallyBrowser ==
    /\ pc = "finally_browser"
    /\ browser' = "closed"
    /\ trace' = Append(trace, Ev("browser_close"))
    /\ pc' = "handler"
    /\ UNCHANGED <<fnVars, email, password, attempt, last_error, exc, context, page,
                   openPages, phase, elapsed, interstitial, clearedAt, selIdx, filled, acted,
                   outcomes, notifications, exitCode>>

\* Mutant: main has no clause for TwoFactorOrCaptchaDetected.
ExitCodeFor_NoChallengeClause(type) ==
    IF type = "TransientPageState" THEN TRANSIENT_EXIT_CODE
    ELSE GENERIC_EXIT_CODE

\* The except clauses of main, keyed by the class of the exception.
ExitCodeFor(type) ==
    IF type = "TwoFactorOrCaptchaDetected" THEN TWO_FACTOR_EXIT_CODE
    ELSE IF type = "TransientPageState" THEN TRANSIENT_EXIT_CODE
    ELSE GENERIC_EXIT_CODE

\* Mutant: the except clauses report success.
MainExcept_ReportsSuccess ==
    /\ pc = "handler"
    /\ exc # NoExc
    /\ NotifyAndReturn(TRUE, ExitCodeFor(exc.type))

MainExcept ==
    /\ pc = "handler"
    /\ exc # NoExc
    /\ NotifyAndReturn(FALSE, ExitCodeFor(exc.type))

\* print("Login succeeded"); send_telegram_notification(True, email, "")
MainSuccess ==
    /\ pc = "handler"
    /\ exc = NoExc
    /\ NotifyAndReturn(TRUE, SUCCESS_EXIT_CODE)

\* ------------------------------------------------- perform_login_flow: ends
envVars == <<email, password>>
cfVars == <<elapsed, interstitial, clearedAt>>
mainVars == <<browser, context, notifications, exitCode>>

Outcome(type, msg, via) ==
    [attempt |-> attempt, type |-> type, msg |-> msg, phase |-> phase, via |-> via]

\* perform_login_flow raises e: control reaches the except clauses of
\* attempt_login_with_retries.
FlowRaises(e, via) ==
    /\ exc' = e
    /\ pc' = "except"
    /\ outcomes' = Append(outcomes, Outcome(e.type, e.msg, via))

\* perform_login_flow returns.
FlowReturns(via) ==
    /\ exc' = exc
    /\ pc' = "flow_returned"
    /\ outcomes' = Append(outcomes, Outcome("ok", "", via))

\* ------------------------------------------------------ wait_for_cloudflare
\* deadline = time.time() + CLOUDFLARE_TIMEOUT_SECONDS; the page shows the
\* interstitial or not when the wait starts.
StartCloudflareWait ==
    /\ pc' = "wait_for_cloudflare"
    /\ elapsed' = 0
    /\ interstitial' \in BOOLEAN
    /\ clearedAt' = -1

\* while time.time() < deadline
BeforeDeadline(t) == t < CLOUDFLARE_TIMEOUT_SECONDS

CloudflareIndicators ==
    {"checking your browser", "just a moment", "please stand by",
     "ddos protection by cloudflare"}

has_cloudflare_interstitial(body_text) ==
    \E indicator \in CloudflareIndicators : ContainsLowered(body_text, indicator)

InterstitialBodies ==
    {{"Just a moment"}, {"Checking your browser", "ray id"}, {"please stand by"},
     {"ddos protection by cloudflare"}}
ClearBodies == {{}, {"Login"}, {"ClientArea"}}

\* wait_for_cloudflare returns: its deadline is gone, and the challenge
\* check that follows both wait points starts.
StartDetect ==
    /\ pc' = "detect_twofactor"
    /\ selIdx' = 1
    /\ elapsed' = 0
    /\ interstitial' = FALSE
    /\ clearedAt' = -1

\* One iteration of the loop of wait_for_cloudflare: the body text is read
\* (or the read times out, or fails), and if the interstitial is seen the
\* page waits out the poll interval, during which the interstitial may go.
CloudflarePoll ==
    /\ pc = "wait_for_cloudflare"
    /\ BeforeDeadline(elapsed)
    /\ \E read \in {"text", "timeout", "error"},
          body \in (IF interstitial THEN InterstitialBodies ELSE ClearBodies) :
          \/ /\ read = "error"
             /\ FlowRaises(Exc("Error", "text_content failed"), "")
             /\ UNCHANGED <<selIdx, cfVars, trace>>
          \/ /\ \/ read = "timeout"
                \/ read = "text" /\ ~has_cloudflare_interstitial(body)
             /\ StartDetect
             /\ trace' = trace \o <<Ev("wait_returned"), Ev("detect")>>
             /\ UNCHANGED <<exc, outcomes>>
          \/ /\ read = "text"
             /\ has_cloudflare_interstitial(body)
             /\ \/ /\ FlowRaises(Exc("Error", "wait_for_timeout failed"), "")
                   /\ UNCHANGED <<selIdx, cfVars, trace>>
                \/ \E d \in 0..MaxPollOverhead :
                      LET now == elapsed + d + CLOUDFLARE_POLL_INTERVAL_SECONDS
                      IN  /\ elapsed' = now
                          /\ \/ UNCHANGED <<interstitial, clearedAt>>
                             \/ \E c \in (elapsed + 1)..now :
                                   /\ interstitial' = FALSE
                                   /\ clearedAt' = c
                          /\ UNCHANGED <<pc, exc, outcomes, selIdx, trace>>
    /\ UNCHANGED <<fnVars, envVars, mainVars, attempt, last_error, page, openPages,
                   phase, filled, acted>>

\* The loop of wait_for_cloudflare ends with the deadline reached.
CloudflareDeadline ==
    /\ pc = "wait_for_cloudflare"
    /\ ~BeforeDeadline(elapsed)
    /\ FlowRaises(Exc("TransientPageState",
                      "Cloudflare interstitial did not clear within timeout."),
                  "wait_for_cloudflare")
    /\ UNCHANGED <<fnVars, envVars, mainVars, cfVars, attempt, last_error, page,
                   openPages, phase, selIdx, filled, acted, trace>>

\* -------------------------------------------------------- navigate_to_login
NavigateToLogin ==
    /\ pc = "goto"
    /\ \/ /\ StartCloudflareWait
          /\ trace' = trace \o <<Ev("goto"), Ev("wait_for_cloudflare")>>
          /\ UNCHANGED <<exc, outcomes>>
       \/ /\ FlowRaises(Exc("TransientPageState",
                            "Timed out navigating to login page."), "goto")
          /\ UNCHANGED <<cfVars, trace>>
       \/ /\ FlowRaises(Exc("Error", "net::ERR_NAME_NOT_RESOLVED"), "goto")
          /\ UNCHANGED <<cfVars, trace>>
    /\ UNCHANGED <<fnVars, envVars, mainVars, attempt, last_error, page, openPages,
                   phase, selIdx, filled, acted>>

\* ----------------------------------------------- detect_twofactor_or_captcha
\* page.locator(selector).count(): positive, zero, or an exception.
ProbeResults == {"hit", "miss", "raise"}

TwoFactorMessage == "Two-factor authentication challenge detected."
CaptchaMessage == "CAPTCHA challenge detected."

\* The body-text fallback; "" stands for None.
BodyChallenge(body_text) ==
    IF ContainsLowered(body_text, "two-factor")
       \/ ContainsLowered(body_text, "verification code")
    THEN TwoFactorMessage
    ELSE IF ContainsLowered(body_text, "captcha") THEN CaptchaMessage
    ELSE ""

ChallengeBodies ==
    {{}, {"Login"}, {"Two-Factor"}, {"verification code"}, {"CAPTCHA"},
     {"captcha", "two-factor"}}

\* if message := detect_twofactor_or_captcha(page): raise ...
ChallengeRaised(message) == message # ""

\* The step perform_login_flow takes after a check that found nothing.
AfterDetect ==
    IF phase = "pre"
    THEN pc' = "fill_username" /\ selIdx' = 1
    ELSE pc' = "verify_url" /\ selIdx' = 1

DetectTwoFactorSelector ==
    /\ pc = "detect_twofactor"
    /\ \E r \in ProbeResults :
          IF r = "hit"
          THEN /\ FlowRaises(Exc("TwoFactorOrCaptchaDetected", TwoFactorMessage),
                             "twofactor_selector")
               /\ UNCHANGED selIdx
          ELSE /\ IF selIdx < NumTwoFactorSelectors
                  THEN pc' = pc /\ selIdx' = selIdx + 1
                  ELSE pc' = "detect_captcha" /\ selIdx' = 1
               /\ UNCHANGED <<exc, outcomes>>
    /\ UNCHANGED <<fnVars, envVars, mainVars, cfVars, attempt, last_error, page,
                   openPages, phase, filled, acted, trace>>

DetectCaptchaSelector ==
    /\ pc = "detect_captcha"
    /\ \E r \in ProbeResults :
          IF r = "hit"
          THEN /\ FlowRaises(Exc("TwoFactorOrCaptchaDetected", CaptchaMessage),
                             "captcha_selector")
               /\ UNCHANGED selIdx
          ELSE /\ IF selIdx < NumCaptchaSelectors
                  THEN pc' = pc /\ selIdx' = selIdx + 1
                  ELSE pc' = "detect_body" /\ selIdx' = 1
               /\ UNCHANGED <<exc, outcomes>>
    /\ UNCHANGED <<fnVars, envVars, mainVars, cfVars, attempt, last_error, page,
                   openPages, phase, filled, acted, trace>>

DetectBodyText ==
    /\ pc = "detect_body"
    /\ \E read \in {"text", "timeout", "error"}, body \in ChallengeBodies :
          LET body_text == IF read = "timeout" THEN {} ELSE body
              message == BodyChallenge(body_text)
          IN  IF read = "error"
              THEN /\ FlowRaises(Exc("Error", "text_content failed"), "")
                   /\ UNCHANGED <<selIdx, trace>>
              ELSE IF ChallengeRaised(message)
              THEN /\ FlowRaises(Exc("TwoFactorOrCaptchaDetected", message),
                                 "body_text")
                   /\ UNCHANGED <<selIdx, trace>>
              ELSE /\ AfterDetect
                   /\ trace' = Append(trace, Ev("no_challenge"))
                   /\ UNCHANGED <<exc, outcomes>>
    /\ UNCHANGED <<fnVars, envVars, mainVars, cfVars, attempt, last_error, page,
                   openPages, phase, filled, acted>>

\* ------------------------ fill_first_available_field, click_first_available
\* One candidate: its locator matches nothing, wait_for times out, some call
\* raises another exception, or the element is filled / clicked.
CandidateResults == {"absent", "timeout", "error", "ok"}

\* One iteration of the selector loop for form step `field` with n
\* candidates; `next` is where the flow goes on a True result, `message`
\* the RuntimeError text on a False one.
\* What one candidate selector does to the scan: the first candidate that is
\* present and acts without error ends the scan with True; an absent one, a
\* timeout or any other error moves on; after the last one the scan is False.
CandidateStep_AbortsOnError(r, idx, n) ==
    IF r = "ok" THEN "return_true"
    ELSE IF r = "error" THEN "return_false"
    ELSE IF idx < n THEN "next"
    ELSE "return_false"

CandidateStep(r, idx, n) ==
    IF r = "ok" THEN "return_true"
    ELSE IF idx < n THEN "next"
    ELSE "return_false"

\* Mutant: the flow clicks submit right after the username.
NextStep_SkipsPassword(field) ==
    CASE field = "username" -> "click_submit"
      [] field = "password" -> "click_submit"
      [] field = "submit" -> "load_state"

\* The step perform_login_flow takes after a form step succeeded.
NextStep(field) ==
    CASE field = "username" -> "fill_password"
      [] field = "password" -> "click_submit"
      [] field = "submit" -> "load_state"

FirstAvailable(field, n, message) ==
    /\ \E r \in CandidateResults :
          LET step == CandidateStep(r, selIdx, n)
          IN  IF step = "return_true"
              THEN /\ filled' = [filled EXCEPT ![field] = TRUE]
                   /\ acted' = selIdx
                   /\ pc' = NextStep(field)
                   /\ selIdx' = 1
                   /\ trace' = Append(trace, Ev(field))
                   /\ UNCHANGED <<exc, outcomes>>
              ELSE IF step = "next"
              THEN /\ selIdx' = selIdx + 1
                   /\ UNCHANGED <<pc, filled, acted, exc, outcomes, trace>>
              ELSE /\ FlowRaises(Exc("RuntimeError", message), field)
                   /\ UNCHANGED <<selIdx, filled, acted, trace>>
    /\ UNCHANGED <<fnVars, envVars, mainVars, cfVars, attempt, last_error, page,
                   openPages, phase>>

FillUsername ==
    /\ pc = "fill_username"
    /\ FirstAvailable("username", NumUsernameSelectors,
                      "Unable to locate username/email input field.")

FillPassword ==
    /\ pc = "fill_password"
    /\ FirstAvailable("password", NumPasswordSelectors,
                      "Unable to locate password input field.")

ClickSubmit ==
    /\ pc = "click_submit"
    /\ FirstAvailable("submit", NumSubmitSelectors,
                      "Unable to locate login submit button.")

WaitForLoadState ==
    /\ pc = "load_state"
    /\ \/ /\ \E r \in {"idle", "timeout"} : StartCloudflareWait
          /\ phase' = "post"
          /\ trace' = trace \o <<Ev("load_state"), Ev("wait_for_cloudflare")>>
          /\ UNCHANGED <<exc, outcomes>>
       \/ /\ FlowRaises(Exc("Error", "wait_for_load_state failed"), "")
          /\ UNCHANGED <<cfVars, phase, trace>>
    /\ UNCHANGED <<fnVars, envVars, mainVars, attempt, last_error, page, openPages,
                   selIdx, filled, acted>>

\* ---------------------------------------------------------- login_successful
Urls == {{"ClientArea"}, {"clientarea", "Login"}, {"login"}, {"index"}}

\* "clientarea" in url and "login" not in url
UrlShowsClientArea(url) ==
    ContainsLowered(url, "clientarea") /\ ~ContainsLowered(url, "login")

VerifyMessage == "Login verification failed."

VerifyUrl ==
    /\ pc = "verify_url"
    /\ \E url \in Urls :
          IF UrlShowsClientArea(url)
          THEN /\ FlowReturns("url")
               /\ trace' = trace \o <<Ev("verify"), Ev("verified")>>
               /\ UNCHANGED selIdx
          ELSE /\ pc' = "verify_logout"
               /\ selIdx' = 1
               /\ trace' = Append(trace, Ev("verify"))
               /\ UNCHANGED <<exc, outcomes>>
    /\ UNCHANGED <<fnVars, envVars, mainVars, cfVars, attempt, last_error, page,
                   openPages, phase, filled, acted>>

VerifyLogoutSelector ==
    /\ pc = "verify_logout"
    /\ \E r \in ProbeResults :
          IF r = "hit"
          THEN /\ FlowReturns("logout_selector")
               /\ trace' = Append(trace, Ev("verified"))
               /\ UNCHANGED selIdx
          ELSE IF selIdx < NumLogoutSelectors
          THEN /\ selIdx' = selIdx + 1
               /\ UNCHANGED <<pc, exc, outcomes, trace>>
          ELSE /\ FlowRaises(Exc("RuntimeError", VerifyMessage), "verify")
               /\ UNCHANGED <<selIdx, trace>>
    /\ UNCHANGED <<fnVars, envVars, mainVars, cfVars, attempt, last_error, page,
                   openPages, phase, filled, acted>>

\* ------------------------------------------------ attempt_login_with_retries
\* Mutant: the loop stops one iteration early.
HasNextAttempt_OffByOne(a) == a + 1 < MAX_ATTEMPTS

\* for attempt in range(1, MAX_ATTEMPTS + 1)
HasNextAttempt(a) == a + 1 <= MAX_ATTEMPTS

\* Mutant: the sleep is taken after the last attempt too.
SleepsAfter_Always(a) == a <= MAX_ATTEMPTS

\* if attempt < MAX_ATTEMPTS: time.sleep(3)
SleepsAfter(a) == a < MAX_ATTEMPTS

\* time.sleep(3)
Sleep == [ev |-> "sleep", n |-> attempt, secs |-> RETRY_SLEEP_SECONDS]

\* page = context.new_page() at the top of an iteration; an exception of
\* new_page leaves the function, outside the try.
NewPage ==
    /\ pc = "loop"
    /\ HasNextAttempt(attempt)
    /\ attempt' = attempt + 1
    /\ \/ /\ page' = attempt + 1
          /\ openPages' = openPages \cup {attempt + 1}
          /\ trace' = Append(trace, EvN("new_page", attempt + 1))
          /\ pc' = "goto"
          /\ UNCHANGED <<exc, outcomes>>
       \/ /\ exc' = Exc("Error", "new_page failed")
          /\ outcomes' = Append(outcomes,
                [attempt |-> attempt + 1, type |-> "Error",
                 msg |-> "new_page failed", phase |-> "pre", via |-> "new_page"])
          /\ pc' = "finally_context"
          /\ UNCHANGED <<page, openPages, trace>>
    /\ phase' = "pre"
    /\ filled' = NoFilled
    /\ acted' = 0
    /\ selIdx' = 0
    /\ UNCHANGED <<fnVars, envVars, mainVars, cfVars, last_error>>

\* Mutant: the success path closes the page and falls through to the next
\* iteration instead of returning.
AttemptReturns_KeepsLooping ==
    /\ pc = "flow_returned"
    /\ openPages' = openPages \ {page}
    /\ trace' = Append(trace, Ev("page_close"))
    /\ pc' = "loop"
    /\ UNCHANGED <<fnVars, envVars, mainVars, cfVars, attempt, last_error, exc, page,
                   phase, selIdx, filled, acted, outcomes>>

\* perform_login_flow returned: page.close(); return
AttemptReturns ==
    /\ pc = "flow_returned"
    /\ openPages' = openPages \ {page}
    /\ trace' = Append(trace, Ev("page_close"))
    /\ pc' = "finally_context"
    /\ UNCHANGED <<fnVars, envVars, mainVars, cfVars, attempt, last_error, exc, page,
                   phase, selIdx, filled, acted, outcomes>>

\* Mutant: last_error keeps the first transient error instead of the latest.
ExceptTransient_KeepsFirstError ==
    /\ pc = "except"
    /\ exc.type = "TransientPageState"
    /\ last_error' = IF last_error = NoExc THEN exc ELSE last_error
    /\ exc' = NoExc
    /\ openPages' = openPages \ {page}
    /\ trace' = trace \o <<Ev("page_close")>> \o
                (IF attempt < MAX_ATTEMPTS THEN <<Ev("sleep")>> ELSE <<>>)
    /\ pc' = "loop"
    /\ elapsed' = 0
    /\ interstitial' = FALSE
    /\ clearedAt' = -1
    /\ UNCHANGED <<fnVars, envVars, mainVars, attempt, page, phase, selIdx,
                   filled, acted, outcomes>>

\* Mutant: the transient path goes on without closing the page.
ExceptTransient_LeaksPage ==
    /\ pc = "except"
    /\ exc.type = "TransientPageState"
    /\ last_error' = exc
    /\ exc' = NoExc
    /\ trace' = trace \o (IF attempt < MAX_ATTEMPTS THEN <<Ev("sleep")>> ELSE <<>>)
    /\ pc' = "loop"
    /\ elapsed' = 0
    /\ interstitial' = FALSE
    /\ clearedAt' = -1
    /\ UNCHANGED <<fnVars, envVars, mainVars, attempt, page, openPages, phase, selIdx,
                   filled, acted, outcomes>>

\* except TransientPageState as exc: last_error = exc; then page.close(),
\* the sleep when attempts remain, and the next iteration.
ExceptTransient ==
    /\ pc = "except"
    /\ exc.type = "TransientPageState"
    /\ last_error' = exc
    /\ exc' = NoExc
    /\ openPages' = openPages \ {page}
    /\ trace' = trace \o <<Ev("page_close")>> \o
                (IF SleepsAfter(attempt) THEN <<Sleep>> ELSE <<>>)
    /\ pc' = "loop"
    /\ elapsed' = 0
    /\ interstitial' = FALSE
    /\ clearedAt' = -1
    /\ UNCHANGED <<fnVars, envVars, mainVars, attempt, page, phase, selIdx,
                   filled, acted, outcomes>>

\* Mutant: every exception is treated as transient and retried.
ExceptOther_Retries ==
    /\ pc = "except"
    /\ exc.type # "TransientPageState"
    /\ last_error' = exc
    /\ exc' = NoExc
    /\ openPages' = openPages \ {page}
    /\ trace' = Append(trace, Ev("page_close"))
    /\ pc' = "loop"
    /\ elapsed' = 0
    /\ interstitial' = FALSE
    /\ clearedAt' = -1
    /\ UNCHANGED <<fnVars, envVars, mainVars, attempt, page, phase, selIdx, filled,
                   acted, outcomes>>

\* except Exception: page.close(); raise
ExceptOther ==
    /\ pc = "except"
    /\ exc.type # "TransientPageState"
    /\ openPages' = openPages \ {page}
    /\ trace' = Append(trace, Ev("page_close"))
    /\ pc' = "finally_context"
    /\ elapsed' = 0
    /\ interstitial' = FALSE
    /\ clearedAt' = -1
    /\ UNCHANGED <<fnVars, envVars, mainVars, attempt, last_error, exc, page,
                   phase, selIdx, filled, acted, outcomes>>

\* The loop is over: raise last_error, or the fallback RuntimeError.
\* Mutant: the function returns after the last attempt instead of raising.
LoopExhausted_ReturnsQuietly ==
    /\ pc = "loop"
    /\ ~HasNextAttempt(attempt)
    /\ exc' = NoExc
    /\ pc' = "finally_context"
    /\ UNCHANGED <<fnVars, envVars, mainVars, cfVars, attempt, last_error, page,
                   openPages, phase, selIdx, filled, acted, outcomes, trace>>

LoopExhausted ==
    /\ pc = "loop"
    /\ ~HasNextAttempt(attempt)
    /\ exc' = IF last_error # NoExc THEN last_error
              ELSE Exc("RuntimeError", "Login attempts exhausted without success.")
    /\ pc' = "finally_context"
    /\ UNCHANGED <<fnVars, envVars, mainVars, cfVars, attempt, last_error, page,
                   openPages, phase, selIdx, filled, acted, outcomes, trace>>

\* ------------------------------------------------------------ specification
Next ==
    \/ MainMissingCredentials
    \/ MainCredentialsPresent
    \/ LaunchBrowser
    \/ NewContext
    \/ NewPage
    \/ NavigateToLogin
    \/ CloudflarePoll
    \/ CloudflareDeadline
    \/ DetectTwoFactorSelector
    \/ DetectCaptchaSelector
    \/ DetectBodyText
    \/ FillUsername
    \/ FillPassword
    \/ ClickSubmit
    \/ WaitForLoadState
    \/ VerifyUrl
    \/ VerifyLogoutSelector
    \/ AttemptReturns
    \/ ExceptTransient
    \/ ExceptOther
    \/ LoopExhausted
    \/ FinallyContext
    \/ FinallyBrowser
    \/ MainExcept
    \/ MainSuccess

Spec == Init /\ [][Next]_vars

Done == pc = "done"

TypeOK ==
    /\ pc \in {"main", "launch", "new_context", "loop", "goto",
               "wait_for_cloudflare", "detect_twofactor", "detect_captcha",
               "detect_body", "fill_username", "fill_password", "click_submit",
               "load_state", "verify_url", "verify_logout", "flow_returned",
               "except", "finally_context", "finally_browser", "handler", "done"}
    /\ attempt \in 0..MAX_ATTEMPTS
    /\ browser \in {"None", "open", "closed"}
    /\ context \in {"None", "open", "closed"}
    /\ phase \in {"pre", "post"}
    /\ exitCode \in {-1, 0, 1, 2, 3}

\* ------------------------------------------------------- reading the history
Count(name) == Cardinality({i \in DOMAIN trace : trace[i].ev = name})
CountN(name, k) ==
    Cardinality({i \in DOMAIN trace : trace[i].ev = name /\ trace[i].n = k})
Positions(name) == {i \in DOMAIN trace : trace[i].ev = name}
AllBefore(first, second) ==
    \A i \in Positions(first), j \in Positions(second) : i < j

LastOutcome == outcomes[Len(outcomes)]
LeftRetryLoop == pc \in {"finally_context", "finally_browser", "handler", "done"}
CredentialsMissing ==
    \/ ~email.present \/ email.val = <<>>
    \/ ~password.present \/ password.val = <<>>
TimedOutInCloudflareWait(o) ==
    o.type = "TransientPageState" /\ o.via = "wait_for_cloudflare"
ChallengeFound(o) ==
    o.via \in {"twofactor_selector", "captcha_selector", "body_text"}

\* ------------------------------------------------------------------- claims
\* C1: a Cloudflare wait that reaches its 30-second deadline, every poll
\* having seen the interstitial, ends the attempt with TransientPageState;
\* and a run in which every attempt ends that way makes exactly 3 attempts
\* and main returns 3.
C1_PersistentInterstitialExits3 ==
    /\ (pc = "except" /\ LastOutcome.via = "wait_for_cloudflare")
          => /\ exc.type = "TransientPageState"
             /\ elapsed >= 30
    /\ (Done /\ outcomes # <<>>
          /\ \A i \in DOMAIN outcomes : TimedOutInCloudflareWait(outcomes[i]))
          => /\ attempt = 3
             /\ Len(outcomes) = 3
             /\ Count("new_page") = 3
             /\ exitCode = 3

C1_Witness ==
    /\ Done
    /\ Len(outcomes) = 3
    /\ \A i \in DOMAIN outcomes : TimedOutInCloudflareWait(outcomes[i])
    /\ outcomes[1].phase = "pre"
    /\ outcomes[2].phase = "post"
    /\ exitCode = 3

\* C2: once detect_twofactor_or_captcha has returned a reason in some attempt
\* of the run - at either check, by a two-factor selector, a CAPTCHA selector
\* or the body text, also after transient failures - main returns 2.
C2_ChallengeExits2 ==
    (Done /\ \E i \in DOMAIN outcomes : ChallengeFound(outcomes[i]))
        => exitCode = 2

C2_Witness ==
    /\ Done
    /\ exitCode = 2
    /\ Len(outcomes) = 3
    /\ outcomes[1].type = "TransientPageState"
    /\ outcomes[2].type = "TransientPageState"
    /\ outcomes[3].via = "body_text"
    /\ outcomes[3].phase = "post"
    /\ outcomes[3].msg = CaptchaMessage

\* C3: with the email, the password or both absent or empty, nothing of the
\* browser is ever started (no launch, no context, no page, no attempt) and
\* main returns 1.
C3_MissingCredentialsNoBrowser ==
    CredentialsMissing
        => /\ Count("launch") = 0 /\ Count("new_context") = 0
           /\ Count("new_page") = 0
           /\ browser = "None" /\ context = "None" /\ openPages = {}
           /\ attempt = 0 /\ outcomes = <<>>
           /\ pc \in {"main", "done"}
           /\ Done => exitCode = 1

C3_Witness ==
    /\ Done
    /\ email.present /\ email.val # <<>>
    /\ password.present /\ password.val = <<>>
    /\ exitCode = 1
    /\ Len(notifications) = 1

\* C4: every page an attempt opens is closed exactly once, whatever the
\* attempt's outcome; it is closed before the next attempt's page is opened
\* and before control leaves attempt_login_with_retries; at most one page is
\* open at any time.
C4_PageClosedExactlyOnce ==
    /\ Cardinality(openPages) <= 1
    /\ \A k \in 1..3 :
          /\ CountN("new_page", k) <= 1
          /\ CountN("page_close", k) <= CountN("new_page", k)
          /\ (k < attempt \/ LeftRetryLoop \/ pc = "loop")
                => /\ CountN("page_close", k) = CountN("new_page", k)
                   /\ k \notin openPages

C4_Witness ==
    /\ Done
    /\ Len(outcomes) = 3
    /\ outcomes[3].type = "RuntimeError"
    /\ \A k \in 1..3 : CountN("new_page", k) = 1 /\ CountN("page_close", k) = 1

\* C5: when login_successful is true in some attempt (by the URL or by a
\* logout control), main returns 0 and the run makes exactly one
\* notification call, with success=True and the success text.
C5_VerifiedLoginExits0 ==
    (Done /\ \E i \in DOMAIN outcomes : outcomes[i].type = "ok")
        => /\ exitCode = 0
           /\ Len(notifications) = 1
           /\ Count("notify") = 1
           /\ notifications[1].success = TRUE
           /\ notifications[1].text.template = "Webhostmost login succeeded"

C5_Witness ==
    /\ Done
    /\ exitCode = 0
    /\ LastOutcome.type = "ok"
    /\ LastOutcome.via = "logout_selector"
    /\ notifications[1].notifier = "sent"

\* C6: at most 3 attempts are started; attempt k+1 is started only if each
\* of the attempts 1..k ended with TransientPageState, and no attempt is
\* started after one that succeeded or raised something else.
C6_RetryOnlyAfterTransient ==
    /\ attempt <= 3
    /\ Count("new_page") <= 3
    /\ Len(outcomes) <= attempt
    /\ Len(outcomes) >= attempt - 1
    /\ \A i \in DOMAIN outcomes :
          /\ outcomes[i].attempt = i
          /\ i < attempt => outcomes[i].type = "TransientPageState"
          /\ outcomes[i].type # "TransientPageState"
                => attempt = i /\ Len(outcomes) = i /\ pc # "loop"

C6_Witness ==
    /\ Done
    /\ attempt = 3
    /\ outcomes[1].type = "TransientPageState"
    /\ outcomes[2].type = "TransientPageState"
    /\ outcomes[3].type = "ok"

\* C7: a missing username field, password field or submit button, or a
\* failed verification, leaves the retry loop in the same attempt, without a
\* retry, and main returns 1.
C7_OtherErrorIsTerminal ==
    \A i \in DOMAIN outcomes :
        outcomes[i].type = "RuntimeError"
            => /\ outcomes[i].via \in {"username", "password", "submit", "verify"}
               /\ attempt = i
               /\ Len(outcomes) = i
               /\ pc \in {"except", "finally_context", "finally_browser",
                          "handler", "done"}
               /\ exc.type = "RuntimeError"
               /\ Done => exitCode = 1

C7_Witness ==
    /\ Done
    /\ exitCode = 1
    /\ Len(outcomes) = 2
    /\ outcomes[1].type = "TransientPageState"
    /\ outcomes[2].msg = VerifyMessage

\* C8: an interstitial that is present when the wait starts and goes away at
\* any time before the 30-second deadline lets wait_for_cloudflare return
\* normally: the wait never raises TransientPageState after such a clearing.
C8_ClearingBeforeDeadlineProceeds ==
    ~(/\ pc = "except"
      /\ exc.type = "TransientPageState"
      /\ LastOutcome.via = "wait_for_cloudflare"
      /\ clearedAt >= 0
      /\ clearedAt < 30)

\* C9: in a run that launched the browser, when main has returned the
\* browser was closed exactly once, the context exactly once if it was
\* created and before the browser, and every opened page before the context.
C9_ResourcesReleased ==
    (Done /\ Count("launch") = 1)
        => /\ exitCode \in {0, 1, 2, 3}
           /\ Count("browser_close") = 1
           /\ browser = "closed"
           /\ Count("context_close") = Count("new_context")
           /\ Count("new_context") <= 1
           /\ Count("new_context") = 1 => context = "closed"
           /\ AllBefore("context_close", "browser_close")
           /\ Count("page_close") = Count("new_page")
           /\ openPages = {}
           /\ AllBefore("page_close", "context_close")
           /\ AllBefore("new_page", "context_close")

C9_Witness ==
    /\ Done
    /\ Count("launch") = 1
    /\ Count("new_page") = 2
    /\ Count("context_close") = 1
    /\ exitCode = 0

C9_WitnessNoContext ==
    /\ Done
    /\ Count("launch") = 1
    /\ Count("new_context") = 0
    /\ Count("browser_close") = 1

\* C10: the exit code of main is decided by the presence of the credentials
\* and by how the attempts ended, whatever the notifier did (unconfigured,
\* requests unavailable, POST raised, HTTP status >= 400, ok=false, sent).
C10_ExitCodeIgnoresNotifier ==
    Done =>
        /\ Len(notifications) = 1
        /\ exitCode =
              IF CredentialsMissing THEN 1
              ELSE IF outcomes = <<>> THEN 1
              ELSE IF LastOutcome.type = "ok" THEN 0
              ELSE IF LastOutcome.type = "TwoFactorOrCaptchaDetected" THEN 2
              ELSE IF LastOutcome.type = "TransientPageState" THEN 3
              ELSE 1

C10_Witness ==
    /\ Done
    /\ exitCode = 0
    /\ notifications[1].notifier = "http error"
    /\ notifications[1].sent = FALSE

\* ------------------------------------------------- helper functions alone
\* The helper functions of the script, each called on its own on an input
\* drawn from a bounded set: main stays idle in these runs.
MainIdle ==
    /\ email = Absent
    /\ password = Absent
    /\ pc = "helper"
    /\ attempt = 0
    /\ last_error = NoExc
    /\ exc = NoExc
    /\ browser = "None"
    /\ context = "None"
    /\ page = 0
    /\ openPages = {}
    /\ phase = "pre"
    /\ elapsed = 0
    /\ interstitial = FALSE
    /\ clearedAt = -1
    /\ selIdx = 0
    /\ filled = NoFilled
    /\ acted = 0
    /\ outcomes = <<>>
    /\ trace = <<>>
    /\ notifications = <<>>
    /\ exitCode = -1

mainAll == <<email, password, pc, attempt, last_error, exc, browser, context,
             page, openPages, phase, elapsed, interstitial, clearedAt, selIdx,
             filled, acted, outcomes, trace, notifications, exitCode>>

SendTgCalls ==
    {[fn |-> "send_tg", token |-> t, chat |-> c, importable |-> i, post |-> p] :
        t \in TokenValues, c \in ChatValues, i \in BOOLEAN, p \in PostOutcomes}

\* One call of send_tg(text): the number of POSTs it makes and its result.
CallSendTg ==
    /\ fnIn.fn = "send_tg"
    /\ fnOut = NoCall
    /\ fnOut' = [posts |-> IF SendTgPosts(fnIn.token, fnIn.chat, fnIn.importable)
                           THEN 1 ELSE 0,
                 returns |-> send_tg(fnIn.token, fnIn.chat, fnIn.importable,
                                     fnIn.post)]
    /\ UNCHANGED <<mainAll, fnIn>>

SeqsUpTo(S, n) == UNION {[1..k -> S] : k \in 0..n}

EmailChars == {"a", "b", "@", " "}

MaskEmailCalls ==
    {[fn |-> "mask_email", email |-> Absent]} \cup
    {[fn |-> "mask_email", email |-> Val(v)] : v \in SeqsUpTo(EmailChars, MaxEmailLen)}

\* One call of mask_email(email).
CallMaskEmail ==
    /\ fnIn.fn = "mask_email"
    /\ fnOut = NoCall
    /\ fnOut' = [returns |-> mask_email(fnIn.email)]
    /\ UNCHANGED <<mainAll, fnIn>>

\* ------------------------------------------------- texts as character tuples
\* The length cap and the whitespace rules work on characters, so the texts
\* main hands to the notification are tuples of one-character strings here.
\* f"Unexpected error: {detail}"
UnexpectedPrefix ==
    <<"U", "n", "e", "x", "p", "e", "c", "t", "e", "d", " ", "e",
      "r", "r", "o", "r", ":", " ">>

\* f"Missing credentials: {...}"
MissingPrefix ==
    <<"M", "i", "s", "s", "i", "n", "g", " ", "c", "r", "e", "d",
      "e", "n", "t", "i", "a", "l", "s", ":", " ">>

EmailName ==
    <<"W", "E", "B", "H", "O", "S", "T", "M", "O", "S", "T", "_",
      "E", "M", "A", "I", "L">>

PasswordName ==
    <<"W", "E", "B", "H", "O", "S", "T", "M", "O", "S", "T", "_",
      "P", "A", "S", "S", "W", "O", "R", "D">>

NameSeparator ==
    <<",", " ">>

\* str(exc) of the challenge exceptions
TwoFactorText ==
    <<"T", "w", "o", "-", "f", "a", "c", "t", "o", "r", " ", "a",
      "u", "t", "h", "e", "n", "t", "i", "c", "a", "t", "i", "o",
      "n", " ", "c", "h", "a", "l", "l", "e", "n", "g", "e", " ",
      "d", "e", "t", "e", "c", "t", "e", "d", ".">>

CaptchaText ==
    <<"C", "A", "P", "T", "C", "H", "A", " ", "c", "h", "a", "l",
      "l", "e", "n", "g", "e", " ", "d", "e", "t", "e", "c", "t",
      "e", "d", ".">>

\* str(exc) of the transient exceptions
NavigationTimeoutText ==
    <<"T", "i", "m", "e", "d", " ", "o", "u", "t", " ", "n", "a",
      "v", "i", "g", "a", "t", "i", "n", "g", " ", "t", "o", " ",
      "l", "o", "g", "i", "n", " ", "p", "a", "g", "e", ".">>

CloudflareTimeoutText ==
    <<"C", "l", "o", "u", "d", "f", "l", "a", "r", "e", " ", "i",
      "n", "t", "e", "r", "s", "t", "i", "t", "i", "a", "l", " ",
      "d", "i", "d", " ", "n", "o", "t", " ", "c", "l", "e", "a",
      "r", " ", "w", "i", "t", "h", "i", "n", " ", "t", "i", "m",
      "e", "o", "u", "t", ".">>

\* the texts used when the compacted message is empty
ChallengeFallback ==
    <<"T", "w", "o", "-", "f", "a", "c", "t", "o", "r", " ", "o",
      "r", " ", "C", "A", "P", "T", "C", "H", "A", " ", "r", "e",
      "q", "u", "i", "r", "e", "d", ".">>

TransientFallback ==
    <<"T", "r", "a", "n", "s", "i", "e", "n", "t", " ", "i", "s",
      "s", "u", "e", " ", "e", "n", "c", "o", "u", "n", "t", "e",
      "r", "e", "d", ".">>

ErrorClassName ==
    <<"E", "r", "r", "o", "r">>

COMPACT_LIMIT == 400

\* " ".join(words of t): t is already stripped, so every run of whitespace is
\* inside it and becomes one space.
Collapse(t) ==
    LET marked == [i \in 1..Len(t) |->
                      [c |-> IF IsSpace(t[i]) THEN " " ELSE t[i],
                       drop |-> IsSpace(t[i]) /\ (i = 1 \/ IsSpace(t[i - 1]))]]
        Kept(x) == ~x.drop
        kept == SelectSeq(marked, Kept)
    IN  [i \in 1..Len(kept) |-> kept[i].c]

Take(t, n) == SubSeq(t, 1, IF Len(t) < n THEN Len(t) ELSE n)

\* _compact_text(value)
CompactText(value) ==
    IF value = <<>> THEN <<>>
    ELSE Take(Collapse(Strip(value)), COMPACT_LIMIT)

\* a or b on strings
OrElse(a, b) == IF a # <<>> THEN a ELSE b

\* The names main lists when credentials are missing.
MissingNames(m) ==
    CASE m = "email" -> EmailName
      [] m = "password" -> PasswordName
      [] m = "both" -> EmailName \o NameSeparator \o PasswordName

\* What main prints as detail in an except clause.
PrintedDetail(clause, message) ==
    CASE clause = "challenge" -> OrElse(CompactText(message), ChallengeFallback)
      [] clause = "transient" -> OrElse(CompactText(message), TransientFallback)
      [] clause = "other" -> OrElse(CompactText(message), ErrorClassName)

\* The reason argument main passes to send_telegram_notification(False, ..).
FailureReason(clause, message) ==
    CASE clause = "missing" -> MissingPrefix \o message
      [] clause = "other" -> UnexpectedPrefix \o PrintedDetail(clause, message)
      [] OTHER -> PrintedDetail(clause, message)

\* detail = _compact_text(reason) in send_telegram_notification
NotificationDetail(reason) == CompactText(reason)

\* fill_first_available_field(page, selectors, value) and
\* click_first_available(page, selectors) over a list of n candidates, res[i]
\* being what candidate i does when it is probed.
ScanCalls ==
    {[fn |-> "scan", kind |-> k, n |-> n, res |-> res] :
        k \in {"fill", "click"},
        n \in {NumPasswordSelectors},
        res \in [1..NumPasswordSelectors -> CandidateResults]}
    \cup
    {[fn |-> "scan", kind |-> "fill", n |-> NumUsernameSelectors, res |-> res] :
        res \in [1..NumUsernameSelectors -> CandidateResults]}

ScanStart == [idx |-> 1, probed |-> {}, actedOn |-> {}, returns |-> "pending"]

ScanState == IF fnOut = NoCall THEN ScanStart ELSE fnOut

\* One iteration of the for loop: candidate idx is probed, and acted on when
\* it is present and visible and its fill/click returns.
ScanStep ==
    /\ fnIn.fn = "scan"
    /\ ScanState.returns = "pending"
    /\ LET st == ScanState
           r == fnIn.res[st.idx]
           step == CandidateStep(r, st.idx, fnIn.n)
       IN  fnOut' = [idx |-> IF step = "next" THEN st.idx + 1 ELSE st.idx,
                     probed |-> st.probed \cup {st.idx},
                     actedOn |-> IF r = "ok" THEN st.actedOn \cup {st.idx}
                                 ELSE st.actedOn,
                     returns |-> CASE step = "return_true" -> "True"
                                   [] step = "return_false" -> "False"
                                   [] step = "next" -> "pending"]
    /\ UNCHANGED <<mainAll, fnIn>>

Rep(c, n) == [i \in 1..n |-> c]

\* Word lengths: short ones, and the ones that put the end of a word next to
\* the cap, alone or behind the "Unexpected error: " prefix.
WordLens ==
    (0..MaxWordLen)
    \cup ((COMPACT_LIMIT - 1)..(COMPACT_LIMIT + 1))
    \cup ((COMPACT_LIMIT - Len(UnexpectedPrefix) - 2)
              ..(COMPACT_LIMIT - Len(UnexpectedPrefix)))

Separators == {<<>>, <<" ">>, <<"\n">>, <<" ", "\t">>}

Pads == {<<>>, <<" ">>}

\* str(exc) of an exception the driver raises: one word, whitespace, a
\* second word, with or without whitespace around them.
Messages ==
    {lead \o Rep("x", n1) \o sep \o Rep("y", n2) \o trail :
        lead \in Pads, n1 \in WordLens, sep \in Separators,
        n2 \in 0..MaxWordLen, trail \in Pads}

\* The exit paths of main that send a failure notification, with the text
\* each one starts from.
ReportFailureCalls ==
    {[fn |-> "report_failure", clause |-> "missing", message |-> MissingNames(m)] :
        m \in {"email", "password", "both"}}
    \cup
    {[fn |-> "report_failure", clause |-> "challenge", message |-> t] :
        t \in {TwoFactorText, CaptchaText}}
    \cup
    {[fn |-> "report_failure", clause |-> "transient", message |-> t] :
        t \in {NavigationTimeoutText, CloudflareTimeoutText}}
    \cup
    {[fn |-> "report_failure", clause |-> "other", message |-> t] : t \in Messages}

\* One failure exit of main up to the text of its notification.
CallReportFailure ==
    /\ fnIn.fn = "report_failure"
    /\ fnOut = NoCall
    /\ LET reason == FailureReason(fnIn.clause, fnIn.message)
       IN  fnOut' = [printed |-> IF fnIn.clause = "missing" THEN reason
                                 ELSE PrintedDetail(fnIn.clause, fnIn.message),
                     reason |-> reason,
                     detail |-> NotificationDetail(reason)]
    /\ UNCHANGED <<mainAll, fnIn>>

CompactTextCalls == {[fn |-> "_compact_text", value |-> t] : t \in Messages}

\* One call of _compact_text(value).
CallCompactText ==
    /\ fnIn.fn = "_compact_text"
    /\ fnOut = NoCall
    /\ fnOut' = [returns |-> CompactText(fnIn.value)]
    /\ UNCHANGED <<mainAll, fnIn>>

FnCalls ==
    SendTgCalls \cup MaskEmailCalls \cup ScanCalls \cup ReportFailureCalls
    \cup CompactTextCalls

FnInit ==
    /\ MainIdle
    /\ fnIn \in FnCalls
    /\ fnOut = NoCall

FnNext ==
    \/ CallSendTg
    \/ CallMaskEmail
    \/ ScanStep
    \/ CallReportFailure
    \/ CallCompactText

FnSpec == FnInit /\ [][FnNext]_vars

\* C11: send_tg POSTs only when TG_BOT_TOKEN and TG_CHAT_ID are both set and
\* non-empty, POSTs at most once per call, and returns True only when the
\* POST was made, did not raise, answered with a status below 400 and not
\* with a JSON object whose ok is false.
C11_SendTgPostsAndResult ==
    (fnIn.fn = "send_tg" /\ fnOut # NoCall)
        => /\ fnOut.posts \in {0, 1}
           /\ fnOut.posts = 1
                 => /\ fnIn.token.present /\ fnIn.token.val # <<>>
                    /\ fnIn.chat.present /\ fnIn.chat.val # <<>>
           /\ fnOut.returns \in BOOLEAN
           /\ fnOut.returns = TRUE
                 => /\ fnOut.posts = 1
                    /\ ~fnIn.post.raises
                    /\ fnIn.post.status < 400
                    /\ fnIn.post.json # "ok false"

C11_Witness ==
    /\ fnIn.fn = "send_tg"
    /\ fnOut # NoCall
    /\ fnOut.returns = TRUE
    /\ fnOut.posts = 1
    /\ fnIn.post.status = 399
    /\ fnIn.post.json = "not json"

\* C12: mask_email gives the placeholder for an absent, empty or
\* all-whitespace address; the first character and "***" when the stripped
\* address has no "@"; otherwise the first character of the text before the
\* first "@", then "***@" and the text after it, so that at most one
\* character stands before the stars. "a@b.com" gives "a***@b.com" and "x"
\* gives "x***".
C12_MaskEmailRule ==
    /\ mask_email(Val(<<"a", "@", "b", ".", "c", "o", "m">>))
          = <<"a", "*", "*", "*", "@", "b", ".", "c", "o", "m">>
    /\ mask_email(Val(<<"x">>)) = <<"x", "*", "*", "*">>
    /\ (fnIn.fn = "mask_email" /\ fnOut # NoCall) =>
          LET v == fnIn.email.val
              r == fnOut.returns
              solid == {i \in 1..Len(v) : v[i] \notin {" ", "\t", "\n"}}
          IN  IF ~fnIn.email.present \/ solid = {}
              THEN r = <<"<unknown email>">>
              ELSE LET lo == CHOOSE i \in solid : \A j \in solid : i <= j
                       hi == CHOOSE i \in solid : \A j \in solid : i >= j
                       ats == {i \in lo..hi : v[i] = "@"}
                   IN  IF ats = {}
                       THEN r = <<v[lo], "*", "*", "*">>
                       ELSE LET k == CHOOSE i \in ats : \A j \in ats : i <= j
                            IN  /\ r = (IF k > lo THEN <<v[lo]>> ELSE <<>>)
                                       \o <<"*", "*", "*", "@">>
                                       \o SubSeq(v, k + 1, hi)
                                /\ r[1] = "*" \/ r[2] = "*"

C12_Witness ==
    /\ fnIn.fn = "mask_email"
    /\ fnIn.email = Val(<<" ", "a", "b", "@">>)
    /\ fnOut # NoCall
    /\ fnOut.returns = <<"a", "*", "*", "*", "@">>

\* C13: when all 3 attempts end with TransientPageState, the exception that
\* leaves attempt_login_with_retries is the one of the third attempt; the
\* fallback RuntimeError is raised in no run.
C13_LastTransientErrorRaised ==
    /\ exc.msg # "Login attempts exhausted without success."
    /\ (pc = "loop" /\ attempt >= 1)
          => last_error = Exc("TransientPageState", outcomes[attempt].msg)
    /\ (LeftRetryLoop /\ Len(outcomes) = 3
          /\ \A i \in DOMAIN outcomes : outcomes[i].type = "TransientPageState")
          => exc = Exc("TransientPageState", outcomes[3].msg)

C13_Witness ==
    /\ Done
    /\ Len(outcomes) = 3
    /\ \A i \in DOMAIN outcomes : outcomes[i].type = "TransientPageState"
    /\ outcomes[1].msg # outcomes[3].msg
    /\ outcomes[2].msg # outcomes[3].msg
    /\ exc.msg = outcomes[3].msg

\* C14: a 3-second sleep follows a transiently failed attempt k only for
\* k < 3, right after that attempt's page was closed and before the next
\* page is opened; nothing else sleeps, so a run of n attempts sleeps n-1
\* times.
C14_SleepOnlyBetweenAttempts ==
    /\ \A i \in Positions("sleep") :
          LET k == trace[i].n
          IN  /\ trace[i].secs = 3
              /\ k < 3
              /\ k <= Len(outcomes)
              /\ outcomes[k].type = "TransientPageState"
              /\ i > 1
              /\ trace[i - 1] = EvN("page_close", k)
              /\ \A j \in Positions("new_page") : (trace[j].n > k) = (j > i)
    /\ \A k \in 1..3 : CountN("sleep", k) <= 1
    /\ CountN("sleep", 3) = 0
    /\ (attempt >= 1 /\ (LeftRetryLoop \/ pc = "loop"))
          => Count("sleep") = (IF pc = "loop" /\ attempt < 3 THEN attempt
                               ELSE attempt - 1)

C14_Witness ==
    /\ Done
    /\ attempt = 3
    /\ Count("sleep") = 2
    /\ outcomes[3].type = "TransientPageState"

\* ------------------------------------------------------------------ steps
\* The steps of perform_login_flow in the order its body lists them.
FlowOrder ==
    <<"goto", "wait_for_cloudflare", "wait_returned", "detect", "no_challenge",
      "username", "password", "submit", "load_state",
      "wait_for_cloudflare", "wait_returned", "detect", "no_challenge",
      "verify", "verified">>

StepNames == {FlowOrder[i] : i \in DOMAIN FlowOrder}

\* The steps attempt k has taken so far, in the order it took them.
StepsOf(k) ==
    LET IsStep(x) == x.n = k /\ x.ev \in StepNames
        taken == SelectSeq(trace, IsStep)
    IN  [i \in DOMAIN taken |-> taken[i].ev]

IsPrefix(s, t) == Len(s) <= Len(t) /\ s = SubSeq(t, 1, Len(s))

\* How often attempt k has taken the step called name.
StepCount(k, name) ==
    Cardinality({i \in DOMAIN StepsOf(k) : StepsOf(k)[i] = name})

\* C15: within one attempt the steps of perform_login_flow occur only in the
\* order navigate, Cloudflare wait, challenge check, fill username, fill
\* password, click submit, load-state wait, Cloudflare wait, challenge check,
\* verification; so a credential is filled only after the first wait returned
\* and the first check found nothing, the password only after the username,
\* submit only after both, and verification only after the second wait
\* returned and the second check found nothing.
C15_FlowStepsInOrder ==
    \A k \in 1..MAX_ATTEMPTS :
        /\ IsPrefix(StepsOf(k), FlowOrder)
        /\ StepCount(k, "username") > 0
              => /\ StepCount(k, "wait_returned") >= 1
                 /\ StepCount(k, "no_challenge") >= 1
        /\ StepCount(k, "password") > 0 => StepCount(k, "username") = 1
        /\ StepCount(k, "submit") > 0
              => StepCount(k, "username") = 1 /\ StepCount(k, "password") = 1
        /\ StepCount(k, "verify") > 0
              => /\ StepCount(k, "submit") = 1
                 /\ StepCount(k, "wait_returned") = 2
                 /\ StepCount(k, "no_challenge") = 2
        /\ k = attempt /\ pc \in {"fill_password", "click_submit", "load_state"}
              => filled.username
        /\ k = attempt /\ pc \in {"click_submit", "load_state"} => filled.password

C15_Witness ==
    /\ attempt = 2
    /\ StepsOf(2) = FlowOrder
    /\ Len(StepsOf(1)) = 10

\* The candidates of a scan that are present, become visible in time and
\* whose fill/click does not raise.
Qualifying == {i \in 1..fnIn.n : fnIn.res[i] = "ok"}

Earliest(S) == CHOOSE i \in S : \A j \in S : i <= j

\* C16: fill_first_available_field and click_first_available, when they return
\* True, have acted on exactly one candidate, the earliest qualifying one, and
\* have probed no candidate after it; they return False if and only if no
\* candidate qualifies, and an absent, timed-out or raising candidate never
\* ends the scan before the remaining candidates were tried.
C16_FirstQualifyingCandidateWins ==
    (fnIn.fn = "scan" /\ fnOut # NoCall)
        => /\ fnOut.returns = "True"
                => /\ Qualifying # {}
                   /\ fnOut.actedOn = {Earliest(Qualifying)}
                   /\ fnOut.probed = 1..Earliest(Qualifying)
           /\ fnOut.returns = "False"
                => /\ Qualifying = {}
                   /\ fnOut.actedOn = {}
                   /\ fnOut.probed = 1..fnIn.n
           /\ fnOut.returns = "pending"
                => /\ fnOut.idx <= fnIn.n
                   /\ fnOut.probed = 1..(fnOut.idx - 1)
                   /\ \A i \in fnOut.probed : fnIn.res[i] # "ok"

C16_Witness ==
    /\ fnIn.fn = "scan"
    /\ fnIn.n = NumUsernameSelectors
    /\ fnIn.res = <<"absent", "error", "ok", "ok">>
    /\ fnOut # NoCall
    /\ fnOut.returns = "True"

Collapsed(t) ==
    /\ \A i \in DOMAIN t : t[i] \notin {"\n", "\t"}
    /\ \A i \in 1..(Len(t) - 1) : ~(t[i] = " " /\ t[i + 1] = " ")
    /\ t # <<>> => ~IsSpace(t[1]) /\ ~IsSpace(t[Len(t)])

\* C17: on every exit path of main that sends a failure notification, the
\* reason in the notification text is at most 400 characters long, contains
\* no newline or tab, no two consecutive spaces and no leading or trailing
\* whitespace.
C17_ReasonCappedAndCollapsed ==
    (fnIn.fn = "report_failure" /\ fnOut # NoCall)
        => /\ Len(fnOut.detail) <= 400
           /\ Collapsed(fnOut.detail)

\* C20: _compact_text is idempotent, also on strings whose collapsed form is
\* longer than the cap, so the detail main prints and the detail
\* send_telegram_notification gets by compacting it again are the same text.
C20_CompactTextIdempotent ==
    /\ (fnIn.fn = "_compact_text" /\ fnOut # NoCall)
          => CompactText(fnOut.returns) = fnOut.returns
    /\ (fnIn.fn = "report_failure" /\ fnIn.clause \in {"challenge", "transient"}
         /\ fnOut # NoCall)
          => fnOut.detail = fnOut.printed

\* C18: every run of main calls send_telegram_notification exactly once, on
\* every exit path, with success=True if and only if the exit code is 0; when
\* the browser was launched the call comes only after the context and the
\* browser were closed.
C18_OneNotificationAfterCleanup ==
    /\ pc # "done" => notifications = <<>> /\ Count("notify") = 0
    /\ pc = "done"
          => /\ Len(notifications) = 1
             /\ Count("notify") = 1
             /\ notifications[1].success <=> exitCode = 0
             /\ Count("launch") > 0
                   => /\ Count("browser_close") = 1
                      /\ AllBefore("browser_close", "notify")
                      /\ browser = "closed"
             /\ Count("new_context") > 0
                   => /\ Count("context_close") = 1
                      /\ AllBefore("context_close", "notify")
                      /\ context = "closed"

C18_Witness ==
    /\ pc = "done"
    /\ Count("launch") = 1
    /\ Count("new_context") = 1
    /\ exitCode = 2
    /\ ~notifications[1].success
    /\ trace[Len(trace)].ev \in {"notify", "post"}

\* C19: main returns 0 only if, in the last attempt performed, both
\* credential fields were filled, submit was clicked, the post-submission
\* Cloudflare wait returned, the post-submission challenge check found
\* nothing and login_successful returned True; success is never reported in
\* a run whose last attempt raised; the exit code is one of 0, 1, 2, 3.
C19_SuccessOnlyAfterVerifiedFlow ==
    /\ (pc = "done" /\ exitCode = 0)
          => /\ outcomes # <<>>
             /\ outcomes[Len(outcomes)].attempt = attempt
             /\ outcomes[Len(outcomes)].type = "ok"
             /\ filled.username /\ filled.password /\ filled.submit
             /\ StepCount(attempt, "submit") = 1
             /\ StepCount(attempt, "wait_returned") = 2
             /\ StepCount(attempt, "no_challenge") = 2
             /\ StepCount(attempt, "verified") = 1
             /\ StepsOf(attempt) = FlowOrder
    /\ (pc = "done" /\ outcomes # <<>> /\ outcomes[Len(outcomes)].type # "ok")
          => /\ exitCode # 0
             /\ ~notifications[1].success
    /\ pc = "done" => exitCode \in {0, 1, 2, 3}

C19_Witness ==
    /\ pc = "done"
    /\ exitCode = 0
    /\ attempt = 3
    /\ outcomes[3].via = "url"
    /\ outcomes[2].type = "TransientPageState"

====
